---- MODULE Spec2Model ----
(***************************************************************************)
(* District / LEA entity resolution: scripts/match_rev_incept.py (the      *)
(* resolver), scripts/build_corrected_rev_incept.py (the override layer)   *)
(* and the normalizer of scripts/match_deduping.py.                        *)
(*                                                                         *)
(* Names are TLA+ strings handled character by character with Len, SubSeq  *)
(* and \o, so that normalize is computed the way the Python code computes  *)
(* it (str.replace, re.sub) and not as an abstraction of it.               *)
(***************************************************************************)
EXTENDS Integers, Sequences, FiniteSets, TLC

----------------------------------------------------------------------------
(* Character classes and string primitives (Python str / re semantics).    *)

Letters == {"a","b","c","d","e","f","g","h","i","j","k","l","m",
            "n","o","p","q","r","s","t","u","v","w","x","y","z"}

Digits == {"0","1","2","3","4","5","6","7","8","9"}

\* what \s and str.strip() treat as whitespace, for the characters used here
Whitespace == {" ", "\t"}

UpperAlphabet == "ABCDEFGHIJKLMNOPQRSTUVWXYZ"

LowerAlphabet == "abcdefghijklmnopqrstuvwxyz"

CharAt(s, i) == SubSeq(s, i, i)

\* s[i-1:] of Python for a 1-based i
From(s, i) == SubSeq(s, i, Len(s))

\* s[:i] of Python
Upto(s, i) == SubSeq(s, 1, i)

\* s.startswith(p, i-1)
StartsAt(s, p, i) ==
    /\ i + Len(p) - 1 <= Len(s)
    /\ SubSeq(s, i, i + Len(p) - 1) = p

\* s[:e].endswith(p)
EndsAt(s, p, e) ==
    /\ e - Len(p) >= 0
    /\ SubSeq(s, e - Len(p) + 1, e) = p

\* p in s
Contains(s, p) == \E i \in 1..(Len(s) + 1) : StartsAt(s, p, i)

\* the least element of a non-empty set of indices
MinOf(S) == CHOOSE i \in S : \A j \in S : i <= j

\* the map sending the k-th character of alphabet a to the k-th of alphabet b
CaseMap(a, b) ==
    [c \in {CharAt(a, j) : j \in 1..Len(a)} |->
        CharAt(b, MinOf({j \in 1..Len(a) : CharAt(a, j) = c}))]

ToLower == CaseMap(UpperAlphabet, LowerAlphabet)

ToUpper == CaseMap(LowerAlphabet, UpperAlphabet)

\* c translated by map, unchanged when map does not hold it
Translate(c, map) == IF c \in DOMAIN map THEN map[c] ELSE c

\* the characters lo..hi of s, each translated (split in halves)
RECURSIVE TranslateRange(_, _, _, _)
TranslateRange(s, map, lo, hi) ==
    IF lo > hi THEN ""
    ELSE IF lo = hi THEN Translate(CharAt(s, lo), map)
    ELSE LET mid == (lo + hi) \div 2
         IN TranslateRange(s, map, lo, mid) \o TranslateRange(s, map, mid + 1, hi)

\* str.lower()
Lower(s) == TranslateRange(s, ToLower, 1, Len(s))

\* str.upper()
Upper(s) == TranslateRange(s, ToUpper, 1, Len(s))

\* first index >= i holding a non-whitespace character (Len(s)+1 if none)
RECURSIVE SkipWs(_, _)
SkipWs(s, i) ==
    IF i <= Len(s) /\ CharAt(s, i) \in Whitespace THEN SkipWs(s, i + 1) ELSE i

\* last index <= e holding a non-whitespace character (0 if none)
RECURSIVE SkipWsBack(_, _)
SkipWsBack(s, e) ==
    IF e >= 1 /\ CharAt(s, e) \in Whitespace THEN SkipWsBack(s, e - 1) ELSE e

\* str.strip()
Strip(s) ==
    LET b == SkipWs(s, 1)
        e == SkipWsBack(s, Len(s))
    IN IF b > e THEN "" ELSE SubSeq(s, b, e)

\* str.replace(old, new): leftmost non-overlapping occurrences, one pass
RECURSIVE Replace(_, _, _)
Replace(s, old, new) ==
    LET occ == {i \in 1..Len(s) : StartsAt(s, old, i)}
    IN IF occ = {} THEN s
       ELSE LET i == MinOf(occ)
            IN Upto(s, i - 1) \o new \o Replace(From(s, i + Len(old)), old, new)

----------------------------------------------------------------------------
(* The regular expressions of normalize, as re.sub applies them.           *)

\* re.sub(r'\s*\((?:dupe|district)\)\s*', ' ', s)
\* length of "(dupe)" or "(district)" when s has it at index j, else 0
DupeAt(s, j) ==
    IF StartsAt(s, "(dupe)", j) THEN 6
    ELSE IF StartsAt(s, "(district)", j) THEN 10 ELSE 0

RECURSIVE SubDupe(_)
SubDupe(s) ==
    LET occ == {i \in 1..Len(s) : DupeAt(s, SkipWs(s, i)) > 0}
    IN IF occ = {} THEN s
       ELSE LET i == MinOf(occ)
                j == SkipWs(s, i)
            IN Upto(s, i - 1) \o " " \o SubDupe(From(s, SkipWs(s, j + DupeAt(s, j))))

\* index of the first ')' after index j (0 if none)
FindClose(s, j) ==
    LET c == {k \in (j + 1)..Len(s) : CharAt(s, k) = ")"}
    IN IF c = {} THEN 0 ELSE MinOf(c)

\* index of the ')' ending a match of  \s*\([^)]*\)  that starts at i (0 if none)
ParenAt(s, i) ==
    LET j == SkipWs(s, i)
    IN IF j <= Len(s) /\ CharAt(s, j) = "(" THEN FindClose(s, j) ELSE 0

\* re.sub(r'\s*\([^)]*\)', '', s)
RECURSIVE SubParen(_)
SubParen(s) ==
    LET occ == {i \in 1..Len(s) : ParenAt(s, i) > 0}
    IN IF occ = {} THEN s
       ELSE LET i == MinOf(occ)
            IN Upto(s, i - 1) \o SubParen(From(s, ParenAt(s, i) + 1))

\* start of the maximal run of digits that ends at index e
RECURSIVE DigitRunStart(_, _)
DigitRunStart(s, e) ==
    IF e >= 2 /\ CharAt(s, e - 1) \in Digits THEN DigitRunStart(s, e - 1) ELSE e

\* index of the last digit of the \d+ of a match of  \d+[a-z]?\s*$  (0 if none)
LastDigit(s) ==
    LET e == SkipWsBack(s, Len(s))
    IN IF e >= 1 /\ CharAt(s, e) \in Digits THEN e
       ELSE IF e >= 2 /\ CharAt(s, e) \in Letters /\ CharAt(s, e - 1) \in Digits
            THEN e - 1
       ELSE 0

\* re.sub(r'\s*\d+[a-z]?\s*$', '', s): the leftmost match runs to the end
SubTrailingNumber(s) ==
    LET d == LastDigit(s)
    IN IF d = 0 THEN s
       ELSE Upto(s, SkipWsBack(s, DigitRunStart(s, d) - 1))

\* The match of  \s*#?\s*(?:no\.?\s*)?(?:re-?)?\d+[a-z]?\s*$  is found right to
\* left; e is the last index the match has not consumed yet.
BeforeRe(s, e) ==
    IF EndsAt(s, "re-", e) THEN e - 3
    ELSE IF EndsAt(s, "re", e) THEN e - 2 ELSE e

\* w is e without the whitespace that may follow "no" or "no."
BeforeNoFrom(s, e, w) ==
    IF EndsAt(s, "no.", w) THEN w - 3
    ELSE IF EndsAt(s, "no", w) THEN w - 2 ELSE e

BeforeNo(s, e) == BeforeNoFrom(s, e, SkipWsBack(s, e))

BeforeHash(s, e) == IF EndsAt(s, "#", e) THEN e - 1 ELSE e

\* the text left of the match whose \d+ ends at index d
CutDistrictNumber(s, d) ==
    Upto(s, SkipWsBack(s, BeforeHash(s, SkipWsBack(s,
            BeforeNo(s, BeforeRe(s, DigitRunStart(s, d) - 1))))))

\* s unless d > 0, and then t
UnlessDigit(s, d, t) == IF d = 0 THEN s ELSE t

\* re.sub(r'\s*#?\s*(?:no\.?\s*)?(?:re-?)?\d+[a-z]?\s*$', '', s)
SubDistrictNumber(s) == UnlessDigit(s, LastDigit(s), CutDistrictNumber(s, LastDigit(s)))

\* re.sub(r'[^a-z\s]', '', s)
RECURSIVE SubNonAlphaRange(_, _, _)
SubNonAlphaRange(s, lo, hi) ==
    IF lo > hi THEN ""
    ELSE IF lo = hi
         THEN (IF CharAt(s, lo) \in Letters \cup Whitespace THEN CharAt(s, lo) ELSE "")
    ELSE LET mid == (lo + hi) \div 2
         IN SubNonAlphaRange(s, lo, mid) \o SubNonAlphaRange(s, mid + 1, hi)

\* normalize without the step that removes what is not a letter or a space
SubNonAlphaSkipped(s) == s

SubNonAlpha(s) == SubNonAlphaRange(s, 1, Len(s))

\* re.sub(r'\s+', ' ', s): a run of whitespace leaves one blank, at its start
RECURSIVE CollapseWsRange(_, _, _)
CollapseWsRange(s, lo, hi) ==
    IF lo > hi THEN ""
    ELSE IF lo = hi
         THEN (IF CharAt(s, lo) \notin Whitespace THEN CharAt(s, lo)
               ELSE IF lo > 1 /\ CharAt(s, lo - 1) \in Whitespace THEN "" ELSE " ")
    ELSE LET mid == (lo + hi) \div 2
         IN CollapseWsRange(s, lo, mid) \o CollapseWsRange(s, mid + 1, hi)

CollapseWs(s) == CollapseWsRange(s, 1, Len(s))

----------------------------------------------------------------------------
(* normalize of match_rev_incept.py                                        *)

\* the suffix vocabulary, in the order the loop removes it
SuffixWords ==
    << "school district", "public schools", "public school district",
       "community school district", "community unit school district",
       "unified school district", "independent school district",
       "central school district", "city school district",
       "community schools", "county schools", "county school district",
       "county school system", "city schools", "school corporation",
       "community consolidated school district",
       "consolidated school district",
       "exempted village school district",
       "township school district", "borough school district",
       "regional school district", "parish school board",
       "area schools", "area school district",
       "charter school", "charter schools", "charter academy",
       "charter", "academy", "school", "schools",
       "unified district", "elementary district",
       "high school district", "union school district",
       "reorganized school district", "school system",
       "supervisory union", "municipal schools",
       "public school", "school board",
       "elementary school district",
       "union free school district", "free school district",
       "enlarged school district",
       "county office of education",
       "county superintendent of schools",
       "office of education",
       "boces", "pcs",
       "district" >>

\* for word in words: s = s.replace(word, '')
RECURSIVE RemoveWords(_, _, _)
RemoveWords(s, words, k) ==
    IF k > Len(words) THEN s
    ELSE LET t == Replace(s, words[k], "")
         IN IF Len(t) = 0 THEN "" ELSE RemoveWords(t, words, k + 1)

ExpandAbbreviations(s) ==
    Replace(Replace(Replace(s, " isd", " independent school district"),
                    " cusd", " community unit school district"),
            " usd", " unified school district")

normalize(name) ==
    IF name = "" THEN ""
    ELSE LET s1 == Strip(Lower(name))
             s2 == SubParen(SubDupe(s1))
             s3 == ExpandAbbreviations(s2)
             s4 == RemoveWords(s3, SuffixWords, 1)
             s5 == SubTrailingNumber(SubDistrictNumber(s4))
         IN Strip(CollapseWs(SubNonAlpha(s5)))

----------------------------------------------------------------------------
(* normalize of match_deduping.py: no abbreviation expansion, the          *)
(* abbreviations are part of the suffix vocabulary instead.                *)

SuffixWordsDeduping ==
    << "school district", "public schools", "public school district",
       "community school district", "community unit school district",
       "unified school district", "independent school district",
       "central school district", "city school district",
       "community schools", "county schools", "county school district",
       "county school system", "city schools", "school corporation",
       "community consolidated school district",
       "consolidated school district",
       "exempted village school district",
       "township school district", "borough school district",
       "regional school district", "parish school board",
       "area schools", "area school district",
       "charter school", "charter schools", "charter academy",
       "charter", "academy", "school", "schools",
       "unified district", "elementary district",
       "high school district", "union school district",
       "reorganized school district", "school system",
       "supervisory union", "municipal schools",
       "community college prep", "college preparatory",
       "public school", "school board",
       "usd", "cusd", "isd", "sd" >>

normalize_deduping(name) ==
    IF name = "" THEN ""
    ELSE LET s1 == Strip(Lower(name))
             s2 == SubParen(s1)
             s4 == RemoveWords(s2, SuffixWordsDeduping, 1)
             s5 == SubTrailingNumber(SubDistrictNumber(s4))
         IN Strip(CollapseWs(SubNonAlpha(s5)))

----------------------------------------------------------------------------
(* Scoring helpers of match_rev_incept.py                                  *)

\* set(s.split()): the distinct maximal runs of non-whitespace characters
Words(s) ==
    LET starts == {i \in 1..Len(s) : /\ CharAt(s, i) \notin Whitespace
                                     /\ (i = 1 \/ CharAt(s, i - 1) \in Whitespace)}
        EndOf(i) == MinOf({j \in i..Len(s) :
                             j = Len(s) \/ CharAt(s, j + 1) \in Whitespace})
    IN {SubSeq(s, i, EndOf(i)) : i \in starts}

\* scores are exact fractions num/den (the floats 1.0, 0.99, 0.98, 0.90 and
\* len(intersection)/len(words_a))
Frac(n, d) == [num |-> n, den |-> d]

ScoreGE(x, y) == x.num * y.den >= y.num * x.den

word_overlap_scoreByUnion(a, b) ==
    IF a = "" \/ b = "" THEN Frac(0, 1)
    ELSE LET words_a == Words(a)
             words_b == Words(b)
         IN IF words_a = {} \/ words_b = {} THEN Frac(0, 1)
            ELSE Frac(Cardinality(words_a \cap words_b),
                      Cardinality(words_a \cup words_b))

\* len(intersection) / max(len(words_a), 1)
word_overlap_score(a, b) ==
    IF a = "" \/ b = "" THEN Frac(0, 1)
    ELSE LET words_a == Words(a)
             words_b == Words(b)
         IN IF words_a = {} \/ words_b = {} THEN Frac(0, 1)
            ELSE Frac(Cardinality(words_a \cap words_b), Cardinality(words_a))

NON_K12_KEYWORDS ==
    << "university", "college", "upward bound", "gear up", "diocese",
       "metropolitan state", "state university", "community college",
       "technical college", "institute of technology",
       "d2c", "events & engagement", "events and engagement",
       "department of corrections", "board of education",
       "lulac national", "united friends", "parris foundation",
       "opportunity resource", "project stay", "learn inc",
       "catherine carlton", "methodist home" >>

is_non_k12(name) ==
    LET lower == Lower(name)
    IN \E k \in 1..Len(NON_K12_KEYWORDS) : Contains(lower, NON_K12_KEYWORDS[k])

\* the placeholder rows the loop drops together with rows without a name
SentinelNames ==
    {"D2C", "Events & Engagement Revenue", "Events and Engagement",
     "Events & Engagement"}

\* re.sub(r'\s*\(dupe\)\s*$', '', name, flags=re.IGNORECASE).strip()
CleanName(name) ==
    LET e == SkipWsBack(name, Len(name))
    IN IF EndsAt(Lower(name), "(dupe)", e)
       THEN Strip(Upto(name, SkipWsBack(name, e - 6)))
       ELSE Strip(name)

\* ScoreCandidate without the substring rule
ScoreCandidateNoSubstring(c, clean_name, norm_input) ==
    IF norm_input # "" /\ norm_input = c.norm_db
    THEN << [score |-> Frac(100, 100), leaid |-> c.leaid, db_name |-> c.name,
             method |-> "EXACT_NORM"] >>
    ELSE IF c.acct # "" /\ Strip(Lower(clean_name)) = Strip(Lower(c.acct))
    THEN << [score |-> Frac(99, 100), leaid |-> c.leaid, db_name |-> c.name,
             method |-> "EXACT_ACCOUNT"] >>
    ELSE IF c.norm_acct # "" /\ norm_input # "" /\ norm_input = c.norm_acct
    THEN << [score |-> Frac(98, 100), leaid |-> c.leaid, db_name |-> c.name,
             method |-> "EXACT_NORM_ACCOUNT"] >>
    ELSE LET score == word_overlap_score(norm_input, c.norm_db)
             acct_score == word_overlap_score(norm_input, c.norm_acct)
         IN (IF ScoreGE(score, Frac(1, 2))
             THEN << [score |-> score, leaid |-> c.leaid, db_name |-> c.name,
                      method |-> "WORD_OVERLAP"] >>
             ELSE << >>)
            \o
            (IF c.norm_acct # "" /\ ScoreGE(acct_score, Frac(1, 2))
             THEN << [score |-> acct_score, leaid |-> c.leaid, db_name |-> c.name,
                      method |-> "ACCT_OVERLAP"] >>
             ELSE << >>)

\* ScoreCandidate with a substring rule that takes empty strings
ScoreCandidateEmptySubstring(c, clean_name, norm_input) ==
    IF norm_input # "" /\ norm_input = c.norm_db
    THEN << [score |-> Frac(100, 100), leaid |-> c.leaid, db_name |-> c.name,
             method |-> "EXACT_NORM"] >>
    ELSE IF c.acct # "" /\ Strip(Lower(clean_name)) = Strip(Lower(c.acct))
    THEN << [score |-> Frac(99, 100), leaid |-> c.leaid, db_name |-> c.name,
             method |-> "EXACT_ACCOUNT"] >>
    ELSE IF c.norm_acct # "" /\ norm_input # "" /\ norm_input = c.norm_acct
    THEN << [score |-> Frac(98, 100), leaid |-> c.leaid, db_name |-> c.name,
             method |-> "EXACT_NORM_ACCOUNT"] >>
    ELSE IF Contains(c.norm_db, norm_input) \/ Contains(norm_input, c.norm_db)
    THEN << [score |-> Frac(90, 100), leaid |-> c.leaid, db_name |-> c.name,
             method |-> "SUBSTRING"] >>
    ELSE LET score == word_overlap_score(norm_input, c.norm_db)
             acct_score == word_overlap_score(norm_input, c.norm_acct)
         IN (IF ScoreGE(score, Frac(1, 2))
             THEN << [score |-> score, leaid |-> c.leaid, db_name |-> c.name,
                      method |-> "WORD_OVERLAP"] >>
             ELSE << >>)
            \o
            (IF c.norm_acct # "" /\ ScoreGE(acct_score, Frac(1, 2))
             THEN << [score |-> acct_score, leaid |-> c.leaid, db_name |-> c.name,
                      method |-> "ACCT_OVERLAP"] >>
             ELSE << >>)

\* ScoreCandidate testing the substring rule before the account rules
ScoreCandidateSubstringFirst(c, clean_name, norm_input) ==
    IF norm_input # "" /\ norm_input = c.norm_db
    THEN << [score |-> Frac(100, 100), leaid |-> c.leaid, db_name |-> c.name,
             method |-> "EXACT_NORM"] >>
    ELSE IF /\ norm_input # ""
            /\ c.norm_db # ""
            /\ (Contains(c.norm_db, norm_input) \/ Contains(norm_input, c.norm_db))
    THEN << [score |-> Frac(90, 100), leaid |-> c.leaid, db_name |-> c.name,
             method |-> "SUBSTRING"] >>
    ELSE IF c.acct # "" /\ Strip(Lower(clean_name)) = Strip(Lower(c.acct))
    THEN << [score |-> Frac(99, 100), leaid |-> c.leaid, db_name |-> c.name,
             method |-> "EXACT_ACCOUNT"] >>
    ELSE IF c.norm_acct # "" /\ norm_input # "" /\ norm_input = c.norm_acct
    THEN << [score |-> Frac(98, 100), leaid |-> c.leaid, db_name |-> c.name,
             method |-> "EXACT_NORM_ACCOUNT"] >>
    ELSE LET score == word_overlap_score(norm_input, c.norm_db)
             acct_score == word_overlap_score(norm_input, c.norm_acct)
         IN (IF ScoreGE(score, Frac(1, 2))
             THEN << [score |-> score, leaid |-> c.leaid, db_name |-> c.name,
                      method |-> "WORD_OVERLAP"] >>
             ELSE << >>)
            \o
            (IF c.norm_acct # "" /\ ScoreGE(acct_score, Frac(1, 2))
             THEN << [score |-> acct_score, leaid |-> c.leaid, db_name |-> c.name,
                      method |-> "ACCT_OVERLAP"] >>
             ELSE << >>)

\* the entries one candidate adds to scored (none, one, or two)
ScoreCandidate(c, clean_name, norm_input) ==
    IF norm_input # "" /\ norm_input = c.norm_db
    THEN << [score |-> Frac(100, 100), leaid |-> c.leaid, db_name |-> c.name,
             method |-> "EXACT_NORM"] >>
    ELSE IF c.acct # "" /\ Strip(Lower(clean_name)) = Strip(Lower(c.acct))
    THEN << [score |-> Frac(99, 100), leaid |-> c.leaid, db_name |-> c.name,
             method |-> "EXACT_ACCOUNT"] >>
    ELSE IF c.norm_acct # "" /\ norm_input # "" /\ norm_input = c.norm_acct
    THEN << [score |-> Frac(98, 100), leaid |-> c.leaid, db_name |-> c.name,
             method |-> "EXACT_NORM_ACCOUNT"] >>
    ELSE IF /\ norm_input # ""
            /\ c.norm_db # ""
            /\ (Contains(c.norm_db, norm_input) \/ Contains(norm_input, c.norm_db))
    THEN << [score |-> Frac(90, 100), leaid |-> c.leaid, db_name |-> c.name,
             method |-> "SUBSTRING"] >>
    ELSE LET score == word_overlap_score(norm_input, c.norm_db)
             acct_score == word_overlap_score(norm_input, c.norm_acct)
         IN (IF ScoreGE(score, Frac(1, 2))
             THEN << [score |-> score, leaid |-> c.leaid, db_name |-> c.name,
                      method |-> "WORD_OVERLAP"] >>
             ELSE << >>)
            \o
            (IF c.norm_acct # "" /\ ScoreGE(acct_score, Frac(1, 2))
             THEN << [score |-> acct_score, leaid |-> c.leaid, db_name |-> c.name,
                      method |-> "ACCT_OVERLAP"] >>
             ELSE << >>)

\* the loop over candidates, in candidate order
RECURSIVE ScoreAll(_, _, _, _)
ScoreAll(candidates, clean_name, norm_input, k) ==
    IF k > Len(candidates) THEN << >>
    ELSE ScoreCandidate(candidates[k], clean_name, norm_input)
         \o ScoreAll(candidates, clean_name, norm_input, k + 1)

\* SortScored taking the last of the entries with the best score first
RECURSIVE SortScoredLastOfTies(_)
SortScoredLastOfTies(scored) ==
    IF scored = << >> THEN << >>
    ELSE LET best == {i \in 1..Len(scored) :
                        \A j \in 1..Len(scored) :
                           ScoreGE(scored[i].score, scored[j].score)}
             k == CHOOSE i \in best : \A j \in best : j <= i
         IN << scored[k] >>
            \o SortScoredLastOfTies(SubSeq(scored, 1, k - 1)
                                    \o SubSeq(scored, k + 1, Len(scored)))

\* scored.sort(key=lambda x: -x[0]): stable, so equal scores keep their order
RECURSIVE SortScored(_)
SortScored(scored) ==
    IF scored = << >> THEN << >>
    ELSE LET k == MinOf({i \in 1..Len(scored) :
                           \A j \in 1..Len(scored) :
                              ScoreGE(scored[i].score, scored[j].score)})
         IN << scored[k] >>
            \o SortScored(SubSeq(scored, 1, k - 1) \o SubSeq(scored, k + 1, Len(scored)))

\* the entries listed in the Notes column: f"{leaid}={name} ({score:.0%})"
Alts(entries) ==
    [k \in 1..Len(entries) |->
        [leaid |-> entries[k].leaid, db_name |-> entries[k].db_name,
         score |-> entries[k].score]]

----------------------------------------------------------------------------
(* Data of the run: the districts table, the input rows, the corrections.  *)

\* bound: number of input rows of a run
MaxRows == 2

District(l, n, st, a) ==
    [leaid |-> l, name |-> n, state_abbrev |-> st, account_name |-> a]

\* rows of the districts table in ORDER BY leaid order ("" stands for NULL)
DistrictsPool ==
    << District("3904384", "Dayton City School District", "OH", ""),
       District("4503360", "Richland School District 1", "SC", "District 1"),
       District("4503390", "Richland School District 2", "SC", ""),
       District("4807530", "Alief Independent School District", "TX", "Alief ISD"),
       District("4814280", "College Station Independent School District", "TX", ""),
       District("4825170", "Lake Forest Independent School District", "TX", ""),
       District("4825180", "Forest Lake Independent School District", "TX",
                "Forest Lake"),
       District("5900001", "Bureau of Indian Education", "", "") >>

\* the registries a run may start from: the whole pool, or the pool without
\* its second Richland and its Lake Forest rows
Registries ==
    { DistrictsPool,
      << DistrictsPool[1], DistrictsPool[3], DistrictsPool[4], DistrictsPool[5],
         DistrictsPool[7], DistrictsPool[8] >> }

InputRow(n, st, lms, nces) ==
    [Name |-> n, State |-> st, LMS |-> lms, NCES |-> nces]

\* the rows the input CSV may hold
Records ==
    { InputRow("Alief Isd", "TX", "L01", ""),
      InputRow("Alief Independent School District", "", "L02", ""),
      InputRow("Richland School District Two", "SC", "L03", ""),
      InputRow("Richland School District Two", "SC", "L04", "4503360"),
      InputRow("Dayton Public Schools", "", "L05", ""),
      InputRow("Dayton Public Schools", "oh", "L06", "4807530"),
      InputRow("Options for Youth - San Juan", "", "L07", ""),
      InputRow("College Station Isd", "TX", "L08", ""),
      InputRow("College Station Isd", "TX", "L09", "4814280"),
      InputRow("Forest Lake Isd", "TX", "L10", ""),
      InputRow("Lake Forest Park Isd", "TX", "L11", ""),
      InputRow("Alief Hastings", "TX", "L12", ""),
      InputRow("City Park School District", "OH", "L13", ""),
      InputRow("Alief Isd", "TX", "L14", "9999999"),
      InputRow("Alief Isd", "INT", "L15", ""),
      InputRow("Alief Isd", "ZZ", "L16", ""),
      InputRow("LEXINGTON DISTRICT 1(dupe)", "SC", "L17", ""),
      InputRow("D2C", "", "L18", ""),
      InputRow(" ", "TX", "L19", ""),
      InputRow("Lake Forest Magnet Arts Isd", "", "L20", ""),
      InputRow("Forest Lake", "TX", "L21", ""),
      InputRow("Forest Lake District", "TX", "L22", ""),
      InputRow("Options for Youth - San Juan", "ZZ", "L23", ""),
      InputRow("District 1", "SC", "L24", ""),
      InputRow("Lake Forest Dayton City", "TX", "L25", "") }

Correction(n, st, l, d, m, c, t) ==
    [name |-> n, state |-> st, leaid |-> l, db_name |-> d, mtype |-> m,
     conf |-> c, notes |-> t]

\* the add(...) calls of build_corrected_rev_incept.py that concern Records
\* ("" stands for None)
CorrectionEntries ==
    << Correction("Otsego Northern Catskills BOCES", "NY", "", "", "NO_MATCH", "NONE",
                  "BOCES - not an LEA in federal data"),
       Correction("Alief Isd", "TX", "4807530", "Alief Independent School District",
                  "CORRECTED", "HIGH", "ISD abbreviation"),
       Correction("Dayton Public Schools", "", "3904384", "Dayton City School District",
                  "CORRECTED", "MEDIUM", "Likely OH but could be other states - verify"),
       Correction("Columbia County Schools", "", "", "", "AMBIGUOUS", "LOW",
                  "Multiple states have Columbia County - need state to match"),
       Correction("D2C", "", "", "", "NON_K12", "N/A", "Not a district"),
       Correction("LEXINGTON DISTRICT 1(dupe)", "SC", "", "", "DUPE", "N/A",
                  "Duplicate of Lexington District 1"),
       Correction("Richland School District Two", "SC", "4503390",
                  "Richland School District 2", "CORRECTED", "HIGH", "Two vs 2") >>

\* corrections[(name.lower().strip(), state.upper().strip())] = (...)
add(corr, e) ==
    LET key == << Strip(Lower(e.name)), Strip(Upper(e.state)) >>
        val == [leaid |-> e.leaid, db_name |-> e.db_name, mtype |-> e.mtype,
                conf |-> e.conf, notes |-> e.notes]
    IN [x \in (DOMAIN corr) \cup {key} |-> IF x = key THEN val ELSE corr[x]]

\* the table after the first k add(...) calls
RECURSIVE AddAll(_)
AddAll(k) ==
    IF k = 0 THEN [x \in {} |-> 0] ELSE add(AddAll(k - 1), CorrectionEntries[k])

----------------------------------------------------------------------------
(* State                                                                    *)

VARIABLES
    districts,      \* the districts table of the database
    corrections,    \* build_corrected_rev_incept.py: the corrections dict
    pc,             \* "index", "match", "correct" or "done"
    db_districts,   \* match_rev_incept.py: the fetched snapshot
    by_state,       \* state -> list of (leaid, name, acct, norm name, norm acct)
    all_districts,  \* list of all snapshot rows with their normalized names
    rows,           \* the input rows the matching loop has consumed so far
    resolved,       \* per consumed row: the loop's locals at the end of its pass
    matched,        \* the rows written by match_rev_incept.py
    done,           \* number of matched rows the correction loop has consumed
    corrected,      \* the rows written by build_corrected_rev_incept.py
    stats,          \* the counters of build_corrected_rev_incept.py
    queries,        \* match_rev_incept.py: the cur.execute calls made so far
    script,         \* a normalize call chain: the script whose normalize runs
    arg,            \* a normalize call chain: the string first passed in
    value,          \* a normalize call chain: the latest string returned
    last,           \* a normalize call chain: the string returned before that
    calls,          \* a normalize call chain: number of calls made
    overlap_a,      \* a word_overlap_score call: the argument a
    overlap_b,      \* a word_overlap_score call: the argument b
    overlap         \* a word_overlap_score call: << >>, or << value returned >>

pipeline_vars == << districts, corrections, pc, db_districts, by_state,
                    all_districts, rows, resolved, matched, done, corrected,
                    stats, queries >>

chain_vars == << script, arg, value, last, calls >>

call_vars == << overlap_a, overlap_b, overlap >>

vars == << pipeline_vars, chain_vars, call_vars >>

----------------------------------------------------------------------------
(* match_rev_incept.py: main                                               *)

\* cur.execute("SELECT leaid, name FROM districts WHERE leaid = %s"); fetchone()
FetchOne(leaid) ==
    LET hits == {k \in 1..Len(districts) : districts[k].leaid = leaid}
    IN IF hits = {} THEN << >> ELSE << districts[MinOf(hits)] >>

\* one row of the output CSV
OutRow(name, state, lms_id, nces, leaid, db_name, mtype, conf, alts, text) ==
    [Name |-> name, State |-> state, LMS |-> lms_id, NCESGiven |-> nces,
     MatchedLEAID |-> leaid, MatchedName |-> db_name, MatchType |-> mtype,
     Confidence |-> conf, Notes |-> [alts |-> alts, text |-> text]]

\* the entries of all_districts without their state column
GlobalCandidates ==
    [k \in 1..Len(all_districts) |->
        [leaid |-> all_districts[k].leaid, name |-> all_districts[k].name,
         acct |-> all_districts[k].acct, norm_db |-> all_districts[k].norm_db,
         norm_acct |-> all_districts[k].norm_acct]]

\* the Python slice entries[lo:hi] (0-based, hi exclusive, clipped to the list)
Slice(entries, lo, hi) ==
    SubSeq(entries, lo + 1, IF Len(entries) < hi THEN Len(entries) ELSE hi)

\* what one pass of the loop yields: whether a row is written, the row, and
\* the locals clean_name, norm_input, search_scope and scored
Pass(emit, out, clean_name, norm_input, search_scope, scored) ==
    [emit |-> emit, out |-> out,
     locals |-> [clean_name |-> clean_name, norm_input |-> norm_input,
                 search_scope |-> search_scope, scored |-> scored]]

\* ScoredRow giving HIGH in either scope
ScoredRowIgnoringScope(name, state, lms_id, search_scope, scored, scope_note) ==
    IF scored = << >>
    THEN OutRow(name, state, lms_id, "", "", "", "NO_MATCH", "NONE",
                << >>, Strip(scope_note))
    ELSE IF ScoreGE(scored[1].score, Frac(90, 100))
    THEN OutRow(name, state, lms_id, "", scored[1].leaid, scored[1].db_name,
                scored[1].method,
                "HIGH",
                Alts(Slice(scored, 1, 3)), scope_note)
    ELSE IF ScoreGE(scored[1].score, Frac(60, 100))
    THEN OutRow(name, state, lms_id, "", scored[1].leaid, scored[1].db_name,
                scored[1].method,
                IF search_scope = "state" THEN "MEDIUM" ELSE "LOW",
                Alts(Slice(scored, 1, 3)), scope_note)
    ELSE OutRow(name, state, lms_id, "", "", "", "LOW_CONFIDENCE", "LOW",
                Alts(Slice(scored, 0, 3)), scope_note)

\* ScoredRow with the HIGH threshold at 0.60
ScoredRowLowThreshold(name, state, lms_id, search_scope, scored, scope_note) ==
    IF scored = << >>
    THEN OutRow(name, state, lms_id, "", "", "", "NO_MATCH", "NONE",
                << >>, Strip(scope_note))
    ELSE IF ScoreGE(scored[1].score, Frac(60, 100))
    THEN OutRow(name, state, lms_id, "", scored[1].leaid, scored[1].db_name,
                scored[1].method,
                IF search_scope = "state" THEN "HIGH" ELSE "MEDIUM",
                Alts(Slice(scored, 1, 3)), scope_note)
    ELSE IF ScoreGE(scored[1].score, Frac(60, 100))
    THEN OutRow(name, state, lms_id, "", scored[1].leaid, scored[1].db_name,
                scored[1].method,
                IF search_scope = "state" THEN "MEDIUM" ELSE "LOW",
                Alts(Slice(scored, 1, 3)), scope_note)
    ELSE OutRow(name, state, lms_id, "", "", "", "LOW_CONFIDENCE", "LOW",
                Alts(Slice(scored, 0, 3)), scope_note)

\* ScoredRow with the bound 0.60 left to the band below it
ScoredRowStrictBand(name, state, lms_id, search_scope, scored, scope_note) ==
    IF scored = << >>
    THEN OutRow(name, state, lms_id, "", "", "", "NO_MATCH", "NONE", << >>,
                Strip(scope_note))
    ELSE IF ScoreGE(scored[1].score, Frac(90, 100))
    THEN OutRow(name, state, lms_id, "", scored[1].leaid, scored[1].db_name,
                scored[1].method,
                IF search_scope = "state" THEN "HIGH" ELSE "MEDIUM",
                Alts(Slice(scored, 1, 3)), scope_note)
    ELSE IF ~ScoreGE(Frac(60, 100), scored[1].score)
    THEN OutRow(name, state, lms_id, "", scored[1].leaid, scored[1].db_name,
                scored[1].method,
                IF search_scope = "state" THEN "MEDIUM" ELSE "LOW",
                Alts(Slice(scored, 1, 3)), scope_note)
    ELSE OutRow(name, state, lms_id, "", "", "", "LOW_CONFIDENCE", "LOW",
                Alts(Slice(scored, 0, 3)), scope_note)

\* the row written for the sorted list scored
ScoredRow(name, state, lms_id, search_scope, scored, scope_note) ==
    IF scored = << >>
    THEN OutRow(name, state, lms_id, "", "", "", "NO_MATCH", "NONE",
                << >>, Strip(scope_note))
    ELSE IF ScoreGE(scored[1].score, Frac(90, 100))
    THEN OutRow(name, state, lms_id, "", scored[1].leaid, scored[1].db_name,
                scored[1].method,
                IF search_scope = "state" THEN "HIGH" ELSE "MEDIUM",
                Alts(Slice(scored, 1, 3)), scope_note)
    ELSE IF ScoreGE(scored[1].score, Frac(60, 100))
    THEN OutRow(name, state, lms_id, "", scored[1].leaid, scored[1].db_name,
                scored[1].method,
                IF search_scope = "state" THEN "MEDIUM" ELSE "LOW",
                Alts(Slice(scored, 1, 3)), scope_note)
    ELSE OutRow(name, state, lms_id, "", "", "", "LOW_CONFIDENCE", "LOW",
                Alts(Slice(scored, 0, 3)), scope_note)

\* the part of the loop body after scored.sort(...)
Ranked(name, state, lms_id, clean_name, norm_input, search_scope, scored) ==
    Pass(TRUE,
         ScoredRow(name, state, lms_id, search_scope, scored,
                   IF search_scope = "all" THEN " (searched all states)" ELSE ""),
         clean_name, norm_input, search_scope, scored)

\* Scored reading the candidates backwards on every second pass of the loop
ScoredByArrival(name, state, lms_id, clean_name, norm_input, candidates, search_scope) ==
    Ranked(name, state, lms_id, clean_name, norm_input, search_scope,
           SortScored(ScoreAll(IF Len(rows) % 2 = 0 THEN candidates
                               ELSE [k \in 1..Len(candidates) |->
                                        candidates[Len(candidates) + 1 - k]],
                               clean_name, norm_input, 1)))

\* the part of the loop body after the candidate pool is chosen
Scored(name, state, lms_id, clean_name, norm_input, candidates, search_scope) ==
    Ranked(name, state, lms_id, clean_name, norm_input, search_scope,
           SortScored(ScoreAll(candidates, clean_name, norm_input, 1)))

\* Given writing no row for an id that is not in the table
GivenDropsUnknown(name, state, lms_id, nces_given, clean_name, norm_input, result) ==
    IF result # << >>
    THEN Pass(TRUE,
              OutRow(name, state, lms_id, nces_given, result[1].leaid,
                     result[1].name, "VERIFIED", "HIGH", << >>, ""),
              clean_name, norm_input, "", << >>)
    ELSE Pass(FALSE,
              OutRow(name, state, lms_id, nces_given, nces_given,
                     "(NOT IN DB)", "GIVEN_NOT_FOUND", "LOW", << >>, ""),
              clean_name, norm_input, "", << >>)

\* "if nces_given:" with result the row fetched for it (<< >> when none)
Given(name, state, lms_id, nces_given, clean_name, norm_input, result) ==
    IF result # << >>
    THEN Pass(TRUE,
              OutRow(name, state, lms_id, nces_given, result[1].leaid,
                     result[1].name, "VERIFIED", "HIGH", << >>, ""),
              clean_name, norm_input, "", << >>)
    ELSE Pass(TRUE,
              OutRow(name, state, lms_id, nces_given, nces_given,
                     "(NOT IN DB)", "GIVEN_NOT_FOUND", "LOW", << >>, ""),
              clean_name, norm_input, "", << >>)

\* Resolve searching all districts for a state that has no bucket
ResolveGlobalFallback(name, state, lms_id, nces_given, clean_name, norm_input) ==
    IF nces_given # ""
    THEN Given(name, state, lms_id, nces_given, clean_name, norm_input,
               FetchOne(nces_given))
    ELSE IF state # "" /\ state \in DOMAIN by_state
    THEN Scored(name, state, lms_id, clean_name, norm_input, by_state[state], "state")
    ELSE Scored(name, state, lms_id, clean_name, norm_input, GlobalCandidates, "all")

\* Resolve scoring a row with a state against the districts of all states
ResolveAcrossStates(name, state, lms_id, nces_given, clean_name, norm_input) ==
    IF nces_given # ""
    THEN Given(name, state, lms_id, nces_given, clean_name, norm_input,
               FetchOne(nces_given))
    ELSE IF state # "" /\ state \in DOMAIN by_state
    THEN Scored(name, state, lms_id, clean_name, norm_input, GlobalCandidates, "state")
    ELSE IF state # ""
    THEN Pass(TRUE,
              OutRow(name, state, lms_id, "", "", "", "NO_STATE_DATA", "NONE",
                     << >>, "No districts for state " \o state),
              clean_name, norm_input, "", << >>)
    ELSE Scored(name, state, lms_id, clean_name, norm_input, GlobalCandidates, "all")

\* the loop body from "if nces_given:" on
Resolve(name, state, lms_id, nces_given, clean_name, norm_input) ==
    IF nces_given # ""
    THEN Given(name, state, lms_id, nces_given, clean_name, norm_input,
               FetchOne(nces_given))
    ELSE IF state # "" /\ state \in DOMAIN by_state
    THEN Scored(name, state, lms_id, clean_name, norm_input, by_state[state], "state")
    ELSE IF state # ""
    THEN Pass(TRUE,
              OutRow(name, state, lms_id, "", "", "", "NO_STATE_DATA", "NONE",
                     << >>, "No districts for state " \o state),
              clean_name, norm_input, "", << >>)
    ELSE Scored(name, state, lms_id, clean_name, norm_input, GlobalCandidates, "all")

\* norm_input = normalize(clean_name), tabulated over the names of Records
norm_inputs ==
    [n \in {CleanName(Strip(r.Name)) : r \in Records} |-> normalize(n)]

\* the loop body from "if is_non_k12(clean_name):" on
Screen(name, state, lms_id, nces_given, clean_name) ==
    IF is_non_k12(clean_name)
    THEN Pass(TRUE,
              OutRow(name, state, lms_id, nces_given, "", "", "NON_K12", "N/A",
                     << >>, "University/college/non-K12 entity"),
              clean_name, "", "", << >>)
    ELSE IF state = "INT"
    THEN Pass(TRUE,
              OutRow(name, state, lms_id, nces_given, "", "", "INTERNATIONAL",
                     "N/A", << >>, "International school - no NCES ID"),
              clean_name, "", "", << >>)
    ELSE Resolve(name, state, lms_id, nces_given, clean_name,
                 norm_inputs[clean_name])

\* the loop body for the stripped fields of a row
MatchFields(name, state, lms_id, nces_given) ==
    IF name = "" \/ name \in SentinelNames
    THEN Pass(FALSE,
              OutRow(name, state, lms_id, nces_given, "", "", "", "", << >>, ""),
              "", "", "", << >>)
    ELSE Screen(name, state, lms_id, nces_given, CleanName(name))

\* the match types written by the branch "if nces_given:", the branch that
\* runs cur.execute("SELECT leaid, name FROM districts WHERE leaid = %s")
GivenTypes == {"VERIFIED", "GIVEN_NOT_FOUND"}

\* one pass of the loop "for row in rows"
MatchResult(row) ==
    MatchFields(Strip(row.Name), Upper(Strip(row.State)), Strip(row.LMS),
                Strip(row.NCES))

----------------------------------------------------------------------------
(* Actions                                                                  *)

Init ==
    /\ districts \in Registries
    /\ corrections = AddAll(Len(CorrectionEntries))
    /\ pc = "index"
    /\ db_districts = districts
    /\ by_state = [x \in {} |-> << >>]
    /\ all_districts = << >>
    /\ rows = << >>
    /\ resolved = << >>
    /\ matched = << >>
    /\ done = 0
    /\ corrected = << >>
    /\ stats = [corrected |-> 0, kept |-> 0, nulled |-> 0, non_k12 |-> 0,
                ambiguous |-> 0]
    /\ queries = << [leaid |-> "", emitted |-> 0] >>
    /\ script = "" /\ arg = "" /\ value = "" /\ last = "" /\ calls = 0
    /\ overlap_a = "" /\ overlap_b = "" /\ overlap = << >>

\* one pass of "for leaid, name, st, acct in db_districts"
IndexEntry(d) ==
    [leaid |-> d.leaid, name |-> d.name, acct |-> d.account_name,
     norm_db |-> normalize(d.name),
     norm_acct |-> IF d.account_name # "" THEN normalize(d.account_name) ELSE ""]

IndexDistrict ==
    /\ pc = "index"
    /\ Len(all_districts) < Len(db_districts)
    /\ \E d \in {db_districts[Len(all_districts) + 1]} :
       \E entry \in {IndexEntry(d)} :
       \E st \in {Upper(d.state_abbrev)} :
          /\ all_districts' = Append(all_districts,
                                     [leaid |-> entry.leaid, name |-> entry.name,
                                      st |-> d.state_abbrev, acct |-> entry.acct,
                                      norm_db |-> entry.norm_db,
                                      norm_acct |-> entry.norm_acct])
          /\ by_state' =
                IF d.state_abbrev = "" THEN by_state
                ELSE IF st \in DOMAIN by_state
                     THEN [by_state EXCEPT ![st] = Append(@, entry)]
                     ELSE [x \in (DOMAIN by_state) \cup {st} |->
                              IF x = st THEN << entry >> ELSE by_state[x]]
    /\ UNCHANGED << districts, corrections, pc, db_districts, rows, resolved,
                    matched, done, corrected, stats,
                    queries,
                    chain_vars, call_vars >>

\* the index is complete: the input CSV is read and the header row written
OpenInput ==
    /\ pc = "index"
    /\ Len(all_districts) = Len(db_districts)
    /\ pc' = "match"
    /\ UNCHANGED << districts, corrections, db_districts, by_state, all_districts,
                    rows, resolved, matched, done, corrected, stats,
                    queries,
                    chain_vars, call_vars >>

\* the loop body of main for the next input row
MatchRow(row) ==
    /\ pc = "match"
    /\ Len(rows) < MaxRows
    /\ \E r \in {MatchResult(row)} :
          /\ rows' = Append(rows, row)
          /\ matched' = IF r.emit THEN Append(matched, r.out) ELSE matched
          /\ resolved' = Append(resolved,
                                [emit |-> r.emit,
                                 out_index |-> IF r.emit THEN Len(matched) + 1 ELSE 0,
                                 locals |-> r.locals])
          /\ queries' = IF r.emit /\ r.out.MatchType \in GivenTypes
                         THEN Append(queries, [leaid |-> Strip(row.NCES),
                                               emitted |-> Len(matched)])
                         ELSE queries
    /\ UNCHANGED << districts, corrections, pc, db_districts, by_state,
                    all_districts, done, corrected, stats,
                    chain_vars, call_vars >>

\* end of the input: match_rev_incept.py exits, build_corrected_rev_incept.py
\* reads what it wrote
EndOfInput ==
    /\ pc = "match"
    /\ pc' = "correct"
    /\ UNCHANGED << districts, corrections, db_districts, by_state, all_districts,
                    rows, resolved, matched, done, corrected, stats,
                    queries,
                    chain_vars, call_vars >>

\* CorrectionKey falling back to the entry recorded with no state
CorrectionKeyAnyState(row) ==
    IF << Strip(Lower(Strip(row.Name))), Upper(Strip(row.State)) >>
           \in DOMAIN corrections
    THEN << Strip(Lower(Strip(row.Name))), Upper(Strip(row.State)) >>
    ELSE << Strip(Lower(Strip(row.Name))), "" >>

\* key = (name.lower().strip(), state) of a row of the matched results
CorrectionKey(row) == << Strip(Lower(Strip(row.Name))), Upper(Strip(row.State)) >>

\* Kept without the resolver's alternates
KeptWithoutAlternates(row) ==
    OutRow(Strip(row.Name), Upper(Strip(row.State)), Strip(row.LMS),
           Strip(row.NCESGiven), row.MatchedLEAID, row.MatchedName,
           row.MatchType, row.Confidence, << >>, row.Notes.text)

\* the row written when key is not in corrections ("Keep original")
Kept(row) ==
    OutRow(Strip(row.Name), Upper(Strip(row.State)), Strip(row.LMS),
           Strip(row.NCESGiven), row.MatchedLEAID, row.MatchedName,
           row.MatchType, row.Confidence, row.Notes.alts, row.Notes.text)

\* Overridden leaving rows the resolver verified as they are
OverriddenUnlessVerified(row, c) ==
    IF row.MatchType = "VERIFIED" THEN Kept(row)
    ELSE OutRow(Strip(row.Name), Upper(Strip(row.State)), Strip(row.LMS),
                Strip(row.NCESGiven), c.leaid, c.db_name, c.mtype, c.conf, << >>,
                c.notes)

\* the row written when key is in corrections, c the entry found
Overridden(row, c) ==
    OutRow(Strip(row.Name), Upper(Strip(row.State)), Strip(row.LMS),
           Strip(row.NCESGiven), c.leaid, c.db_name, c.mtype, c.conf, << >>,
           c.notes)

\* the counter a corrected row increments
Counter(c) ==
    IF c.leaid # "" THEN "corrected"
    ELSE IF c.mtype = "NON_K12" THEN "non_k12"
    ELSE IF c.mtype = "AMBIGUOUS" THEN "ambiguous"
    ELSE "nulled"

\* CorrectRow counting no row whose corrected match type is DUPE
CorrectRowDupeUncounted ==
    /\ pc = "correct"
    /\ done < Len(matched)
    /\ \E row \in {matched[done + 1]} :
          IF Strip(row.Name) = ""
          THEN UNCHANGED << corrected, stats >>
          ELSE IF CorrectionKey(row) \in DOMAIN corrections
          THEN /\ corrected' = Append(corrected,
                                      Overridden(row, corrections[CorrectionKey(row)]))
               /\ stats' = IF corrections[CorrectionKey(row)].mtype = "DUPE"
                           THEN stats
                           ELSE [stats EXCEPT
                                   ![Counter(corrections[CorrectionKey(row)])] = @ + 1]
          ELSE /\ corrected' = Append(corrected, Kept(row))
               /\ stats' = [stats EXCEPT !.kept = @ + 1]
    /\ done' = done + 1
    /\ UNCHANGED << districts, corrections, pc, db_districts, by_state,
                    all_districts, rows, resolved, matched,
                    queries,
                    chain_vars, call_vars >>

\* build_corrected_rev_incept.py: one pass of the output loop
CorrectRow ==
    /\ pc = "correct"
    /\ done < Len(matched)
    /\ \E row \in {matched[done + 1]} :
          IF Strip(row.Name) = ""
          THEN UNCHANGED << corrected, stats >>
          ELSE IF CorrectionKey(row) \in DOMAIN corrections
          THEN /\ corrected' = Append(corrected,
                                      Overridden(row, corrections[CorrectionKey(row)]))
               /\ stats' = [stats EXCEPT
                               ![Counter(corrections[CorrectionKey(row)])] = @ + 1]
          ELSE /\ corrected' = Append(corrected, Kept(row))
               /\ stats' = [stats EXCEPT !.kept = @ + 1]
    /\ done' = done + 1
    /\ UNCHANGED << districts, corrections, pc, db_districts, by_state,
                    all_districts, rows, resolved, matched,
                    queries,
                    chain_vars, call_vars >>

\* the output loop is over: the statistics are printed
Finish ==
    /\ pc = "correct"
    /\ done = Len(matched)
    /\ pc' = "done"
    /\ UNCHANGED << districts, corrections, db_districts, by_state, all_districts,
                    rows, resolved, matched, done, corrected, stats,
                    queries,
                    chain_vars, call_vars >>

Next ==
    \/ IndexDistrict
    \/ OpenInput
    \/ \E row \in Records : MatchRow(row)
    \/ EndOfInput
    \/ CorrectRow
    \/ Finish

Spec == Init /\ [][Next]_vars

----------------------------------------------------------------------------
(* normalize as a function: chains of calls on bounded inputs.             *)

\* bound: number of fragments an input of a call chain is made of
MaxFragments == 3

\* the fragments inputs are concatenated from
Fragments == << "alief", " ", "isd", "i.s.d.", "sch", "ool", "school" >>

\* the concatenations of exactly n fragments
RECURSIVE Concatenations(_)
Concatenations(n) ==
    IF n = 0 THEN {""}
    ELSE { s \o Fragments[k] : s \in Concatenations(n - 1), k \in DOMAIN Fragments }

NameInputs == UNION { Concatenations(n) : n \in 0..MaxFragments }

\* the two scripts that define normalize
Scripts == {"match_rev_incept", "match_deduping"}

\* normalize of the given script
NormalizeOf(sc, s) ==
    IF sc = "match_rev_incept" THEN normalize(s) ELSE normalize_deduping(s)

InitChain ==
    /\ districts = << >>
    /\ corrections = [x \in {} |-> 0]
    /\ pc = "normalize"
    /\ db_districts = << >>
    /\ by_state = [x \in {} |-> << >>]
    /\ all_districts = << >>
    /\ rows = << >>
    /\ resolved = << >>
    /\ matched = << >>
    /\ done = 0
    /\ corrected = << >>
    /\ stats = [corrected |-> 0, kept |-> 0, nulled |-> 0, non_k12 |-> 0,
                ambiguous |-> 0]
    /\ queries = << >>
    /\ script \in Scripts
    /\ arg \in NameInputs
    /\ value = arg
    /\ last = arg
    /\ calls = 0
    /\ overlap_a = "" /\ overlap_b = "" /\ overlap = << >>

\* value = normalize(value), at most twice
Normalize ==
    /\ pc = "normalize"
    /\ calls < 2
    /\ last' = value
    /\ value' = NormalizeOf(script, value)
    /\ calls' = calls + 1
    /\ UNCHANGED << pipeline_vars, script, arg, call_vars >>

NextChain == Normalize

SpecChain == InitChain /\ [][NextChain]_vars

----------------------------------------------------------------------------
(* normalize as a function: calls on names that end with a suffix phrase.   *)

\* the names the suffix phrases are appended to
Stems == {"alief", "lake forest"}

\* the suffix vocabulary of a script
SuffixWordsOf(sc) ==
    IF sc = "match_rev_incept" THEN SuffixWords ELSE SuffixWordsDeduping

\* the calls normalize(stem + " " + phrase), phrase in the script's vocabulary
SuffixCalls ==
    UNION { { << sc, st \o " " \o SuffixWordsOf(sc)[k] >> :
                st \in Stems, k \in DOMAIN SuffixWordsOf(sc) } : sc \in Scripts }

InitSuffix ==
    /\ districts = << >>
    /\ corrections = [x \in {} |-> 0]
    /\ pc = "normalize"
    /\ db_districts = << >>
    /\ by_state = [x \in {} |-> << >>]
    /\ all_districts = << >>
    /\ rows = << >>
    /\ resolved = << >>
    /\ matched = << >>
    /\ done = 0
    /\ corrected = << >>
    /\ stats = [corrected |-> 0, kept |-> 0, nulled |-> 0, non_k12 |-> 0,
                ambiguous |-> 0]
    /\ queries = << >>
    /\ \E c \in SuffixCalls :
           script = c[1] /\ arg = c[2] /\ value = c[2] /\ last = c[2]
    /\ calls = 0
    /\ overlap_a = "" /\ overlap_b = "" /\ overlap = << >>

SpecSuffix == InitSuffix /\ [][NextChain]_vars

----------------------------------------------------------------------------
(* normalize as a function: calls on names that hold a district number.     *)

\* the parts of a name: what precedes the number, the number, what follows it
NumberPrefixes == {"lake", "lake forest"}

NumberTokens == {"1", "2", "168", "no. 2", "re-8"}

NumberTails == {"", " alief", " park"}

\* the names prefix + " " + number + tail
NumberNames ==
    [x \in NumberPrefixes \X NumberTokens \X NumberTails |->
        x[1] \o " " \o x[2] \o x[3]]

InitNumber ==
    /\ districts = << >>
    /\ corrections = [x \in {} |-> 0]
    /\ pc = "normalize"
    /\ db_districts = << >>
    /\ by_state = [x \in {} |-> << >>]
    /\ all_districts = << >>
    /\ rows = << >>
    /\ resolved = << >>
    /\ matched = << >>
    /\ done = 0
    /\ corrected = << >>
    /\ stats = [corrected |-> 0, kept |-> 0, nulled |-> 0, non_k12 |-> 0,
                ambiguous |-> 0]
    /\ queries = << >>
    /\ script \in Scripts
    /\ \E x \in DOMAIN NumberNames :
           arg = NumberNames[x] /\ value = NumberNames[x] /\ last = NumberNames[x]
    /\ calls = 0
    /\ overlap_a = "" /\ overlap_b = "" /\ overlap = << >>

SpecNumber == InitNumber /\ [][NextChain]_vars

----------------------------------------------------------------------------
(* word_overlap_score as a function: one call on bounded inputs.            *)

\* bound: number of words an argument of a call is made of
MaxWords == 3

\* the words arguments are made of
Vocabulary == << "alief", "lake", "forest" >>

\* the strings of exactly n words, separated by single spaces
RECURSIVE Phrases(_)
Phrases(n) ==
    IF n = 0 THEN {""}
    ELSE IF n = 1 THEN { Vocabulary[k] : k \in DOMAIN Vocabulary }
    ELSE { s \o " " \o Vocabulary[k] : s \in Phrases(n - 1), k \in DOMAIN Vocabulary }

\* the arguments of a call: the phrases and a string of whitespace only
OverlapInputs == UNION { Phrases(n) : n \in 0..MaxWords } \cup {" "}

InitOverlap ==
    /\ districts = << >>
    /\ corrections = [x \in {} |-> 0]
    /\ pc = "overlap"
    /\ db_districts = << >>
    /\ by_state = [x \in {} |-> << >>]
    /\ all_districts = << >>
    /\ rows = << >>
    /\ resolved = << >>
    /\ matched = << >>
    /\ done = 0
    /\ corrected = << >>
    /\ stats = [corrected |-> 0, kept |-> 0, nulled |-> 0, non_k12 |-> 0,
                ambiguous |-> 0]
    /\ queries = << >>
    /\ script = "" /\ arg = "" /\ value = "" /\ last = "" /\ calls = 0
    /\ overlap_a \in OverlapInputs
    /\ overlap_b \in OverlapInputs
    /\ overlap = << >>

\* overlap = word_overlap_score(overlap_a, overlap_b)
Overlap ==
    /\ pc = "overlap"
    /\ overlap = << >>
    /\ overlap' = << word_overlap_score(overlap_a, overlap_b) >>
    /\ UNCHANGED << pipeline_vars, chain_vars, overlap_a, overlap_b >>

NextOverlap == Overlap

SpecOverlap == InitOverlap /\ [][NextOverlap]_vars

----------------------------------------------------------------------------
(* Properties.                                                             *)

\* the row match_rev_incept.py wrote for the i-th input row
Out(i) == matched[resolved[i].out_index]

\* the fields of the rows of Records as the loop reads them
FieldsOf ==
    [r \in Records |->
        [name |-> Strip(r.Name), lname |-> Lower(Strip(r.Name)),
         state |-> Upper(Strip(r.State)), given |-> Strip(r.NCES),
         non_k12 |-> is_non_k12(CleanName(Strip(r.Name)))]]

\* the i-th input row was skipped by "if not name or name in (...): continue"
Skipped(row) == FieldsOf[row].name = "" \/ FieldsOf[row].name \in SentinelNames

\* the fields of an input row as the loop reads them
NameOf(row) == FieldsOf[row].name
StateOf(row) == FieldsOf[row].state
GivenOf(row) == FieldsOf[row].given

\* the bucket of a state, empty when the state has none
Bucket(st) == IF st \in DOMAIN by_state THEN by_state[st] ELSE << >>

\* the input rows the resolver scores in the bucket of their state
Local(i) ==
    /\ ~Skipped(rows[i])
    /\ GivenOf(rows[i]) = ""
    /\ Bucket(StateOf(rows[i])) # << >>

\* the override key of an input row
RecordKey(row) == << FieldsOf[row].lname, StateOf(row) >>

ExactMethods == {"EXACT_NORM", "EXACT_ACCOUNT", "EXACT_NORM_ACCOUNT"}

AllMethods == ExactMethods \cup {"SUBSTRING", "WORD_OVERLAP", "ACCT_OVERLAP"}

\* the candidates of a bucket whose normalized primary name is n
ExactIn(bucket, n) == {k \in 1..Len(bucket) : bucket[k].norm_db = n}

ExactNormWins(i, bucket, n) ==
    (n # "" /\ ExactIn(bucket, n) # {})
    => /\ resolved[i].emit
       /\ Out(i).MatchType = "EXACT_NORM"
       /\ Out(i).Confidence = "HIGH"
       /\ \E k \in ExactIn(bucket, n) : Out(i).MatchedLEAID = bucket[k].leaid

\* C1: an input row with no supplied id, a state whose bucket is non-empty and
\* a non-empty normalized name equal to the normalized name of a candidate of
\* that bucket is matched to such a candidate, EXACT_NORM, HIGH.
C1_ExactNormWins ==
    \A i \in 1..Len(rows) :
        Local(i) => ExactNormWins(i, Bucket(StateOf(rows[i])),
                                  normalize(CleanName(NameOf(rows[i]))))

\* C2: an input row with a non-empty, non-sentinel name whose supplied id is in
\* the districts table is written VERIFIED with the table's row of that id,
\* whatever its name and state.
C2_SuppliedIdVerified ==
    \A i \in 1..Len(rows) :
        (~Skipped(rows[i]) /\ GivenOf(rows[i]) # ""
            /\ FetchOne(GivenOf(rows[i])) # << >>)
        => /\ resolved[i].emit
           /\ Out(i).MatchType = "VERIFIED"
           /\ Out(i).MatchedLEAID = GivenOf(rows[i])
           /\ Out(i).MatchedName = FetchOne(GivenOf(rows[i]))[1].name

\* the corrected row carries exactly the entry c and nothing of the resolver
IsOverride(out, c) ==
    /\ out.MatchedLEAID = c.leaid
    /\ out.MatchedName = c.db_name
    /\ out.MatchType = c.mtype
    /\ out.Confidence = c.conf
    /\ out.Notes = [alts |-> << >>, text |-> c.notes]

\* C3: for every input row whose key (lowercased trimmed name, state) is in the
\* corrections table, the row written by the correction pass carries the
\* entry's id, name, type, confidence and note and no alternates, whatever the
\* resolver wrote for it.
C3_OverrideReplaces ==
    \A i \in 1..Len(rows) :
        (resolved[i].emit /\ resolved[i].out_index <= Len(corrected)
            /\ RecordKey(rows[i]) \in DOMAIN corrections)
        => IsOverride(corrected[resolved[i].out_index],
                      corrections[RecordKey(rows[i])])

\* a row the resolver verified by its supplied id is overridden to another id
C3_Witness ==
    \E i \in 1..Len(rows) :
        /\ resolved[i].emit
        /\ resolved[i].out_index <= Len(corrected)
        /\ Out(i).MatchType = "VERIFIED"
        /\ corrected[resolved[i].out_index].MatchType = "CORRECTED"
        /\ corrected[resolved[i].out_index].MatchedLEAID # Out(i).MatchedLEAID

\* C4: normalize is idempotent: a second call returns what the first returned.
C4_NormalizeIdempotent == calls = 2 => value = last

\* C5: a row resolved in scope 'all' (no state given, candidates drawn from
\* all_districts) is never written with Confidence HIGH.
C5_GlobalNeverHigh ==
    \A i \in 1..Len(rows) :
        (resolved[i].emit
            /\ (resolved[i].locals.search_scope = "all"
                \/ (StateOf(rows[i]) = "" /\ GivenOf(rows[i]) = "")))
        => Out(i).Confidence # "HIGH"

\* a row resolved in scope 'all' whose best score is 0.90 or more
C5_Witness ==
    \E i \in 1..Len(rows) :
        /\ resolved[i].emit
        /\ resolved[i].locals.search_scope = "all"
        /\ resolved[i].locals.scored # << >>
        /\ ScoreGE(resolved[i].locals.scored[1].score, Frac(90, 100))
        /\ Out(i).Confidence = "MEDIUM"

\* the rows the resolver itself gave Confidence HIGH (no supplied id)
ResolverHigh(i) ==
    /\ resolved[i].emit
    /\ GivenOf(rows[i]) = ""
    /\ Out(i).Confidence = "HIGH"

\* C6 as stated: whenever the resolver (no supplied id) gives HIGH, the scope is
\* 'state' and the method is EXACT_NORM, EXACT_ACCOUNT or EXACT_NORM_ACCOUNT.
C6_HighOnlyExact ==
    \A i \in 1..Len(rows) :
        ResolverHigh(i)
        => /\ resolved[i].locals.search_scope = "state"
           /\ Out(i).MatchType \in ExactMethods

\* C6 amended: whenever the resolver (no supplied id) gives HIGH, the scope is
\* 'state' and the best score is 0.90 or more; the method is that of the best
\* entry and may be any of the six, SUBSTRING and the overlaps included.
C6_HighOnlyLocalTopScore ==
    \A i \in 1..Len(rows) :
        ResolverHigh(i)
        => /\ resolved[i].locals.search_scope = "state"
           /\ resolved[i].locals.scored # << >>
           /\ ScoreGE(resolved[i].locals.scored[1].score, Frac(90, 100))
           /\ Out(i).MatchType = resolved[i].locals.scored[1].method
           /\ Out(i).MatchType \in AllMethods

\* the resolver gives HIGH to a SUBSTRING match
C6_Witness ==
    \E i \in 1..Len(rows) : ResolverHigh(i) /\ Out(i).MatchType = "SUBSTRING"

NumberWords ==
    { [word |-> " One", digit |-> " 1"], [word |-> " Two", digit |-> " 2"],
      [word |-> " Three", digit |-> " 3"] }

\* a is b with its trailing digit spelled out
SpelledOut(a, b) ==
    \E p \in NumberWords :
        /\ Len(a) > Len(p.word)
        /\ Len(b) > Len(p.digit)
        /\ From(a, Len(a) - Len(p.word) + 1) = p.word
        /\ From(b, Len(b) - Len(p.digit) + 1) = p.digit
        /\ Upto(a, Len(a) - Len(p.word)) = Upto(b, Len(b) - Len(p.digit))

\* the candidates of the row's bucket whose name is the row's name with the
\* number word as a digit
DigitTwins(i) ==
    {k \in 1..Len(Bucket(StateOf(rows[i]))) :
        SpelledOut(NameOf(rows[i]), Bucket(StateOf(rows[i]))[k].name)}

\* once the correction pass has written the row, it is CORRECTED/HIGH
OverrideCorrectedHigh(i) ==
    (RecordKey(rows[i]) \in DOMAIN corrections
        /\ resolved[i].out_index <= Len(corrected))
    => /\ corrected[resolved[i].out_index].MatchType = "CORRECTED"
       /\ corrected[resolved[i].out_index].Confidence = "HIGH"

\* C8 as stated: for a row whose name is a candidate's name of its state with
\* the trailing digit spelled out, the resolver scores that candidate below
\* 0.90 and does not give HIGH; with an override the output is CORRECTED/HIGH.
C8_NumberWordBelowHigh ==
    \A i \in 1..Len(rows) :
        (Local(i) /\ DigitTwins(i) # {})
        => /\ \A k \in DigitTwins(i) :
                \A e \in 1..Len(resolved[i].locals.scored) :
                    resolved[i].locals.scored[e].leaid
                        = Bucket(StateOf(rows[i]))[k].leaid
                    => ~ScoreGE(resolved[i].locals.scored[e].score, Frac(90, 100))
           /\ Out(i).Confidence # "HIGH"
           /\ OverrideCorrectedHigh(i)

\* C8 amended: for such a row the resolver scores that candidate exactly 0.90
\* by SUBSTRING and gives HIGH to the first candidate of the list with the
\* best score; with an override the output is CORRECTED/HIGH.
C8_NumberWordSubstring ==
    \A i \in 1..Len(rows) :
        (Local(i) /\ DigitTwins(i) # {})
        => /\ \A k \in DigitTwins(i) :
                \E e \in 1..Len(resolved[i].locals.scored) :
                    /\ resolved[i].locals.scored[e].leaid
                          = Bucket(StateOf(rows[i]))[k].leaid
                    /\ resolved[i].locals.scored[e].score = Frac(90, 100)
                    /\ resolved[i].locals.scored[e].method = "SUBSTRING"
           /\ Out(i).Confidence = "HIGH"
           /\ Out(i).MatchedLEAID = resolved[i].locals.scored[1].leaid
           /\ OverrideCorrectedHigh(i)

\* "Richland School District Two": the resolver gave HIGH to another district
\* than the override, which is CORRECTED/HIGH
C8_Witness ==
    \E i \in 1..Len(rows) :
        /\ Local(i)
        /\ DigitTwins(i) # {}
        /\ RecordKey(rows[i]) \in DOMAIN corrections
        /\ resolved[i].out_index <= Len(corrected)
        /\ Out(i).Confidence = "HIGH"
        /\ corrected[resolved[i].out_index].MatchType = "CORRECTED"
        /\ corrected[resolved[i].out_index].MatchedLEAID # Out(i).MatchedLEAID

Abbreviations ==
    { [short |-> " isd", long |-> " independent school district"],
      [short |-> " cusd", long |-> " community unit school district"],
      [short |-> " usd", long |-> " unified school district"] }

\* a is b with its legal-entity suffix abbreviated (case folded)
Abbreviated(a, b) ==
    \E p \in Abbreviations :
        /\ Len(a) >= Len(p.short)
        /\ Len(b) >= Len(p.long)
        /\ From(Lower(a), Len(a) - Len(p.short) + 1) = p.short
        /\ From(Lower(b), Len(b) - Len(p.long) + 1) = p.long
        /\ Upto(Lower(a), Len(a) - Len(p.short))
              = Upto(Lower(b), Len(b) - Len(p.long))

\* the candidates of the row's bucket whose name is the row's name spelled out
LongForms(i) ==
    {k \in 1..Len(Bucket(StateOf(rows[i]))) :
        Abbreviated(NameOf(rows[i]), Bucket(StateOf(rows[i]))[k].name)}

\* C9: a row whose name is X + ' isd' (' cusd', ' usd') and a candidate of its
\* state named X + ' independent school district' (...) normalize to the same
\* string, and the row is written EXACT_NORM, HIGH with that candidate.
C9_AbbreviationExactNorm ==
    \A i \in 1..Len(rows) :
        (Local(i) /\ LongForms(i) # {})
        => \A k \in LongForms(i) :
              /\ normalize(NameOf(rows[i]))
                    = normalize(Bucket(StateOf(rows[i]))[k].name)
              /\ Out(i).MatchType = "EXACT_NORM"
              /\ Out(i).Confidence = "HIGH"
              /\ Out(i).MatchedLEAID = Bucket(StateOf(rows[i]))[k].leaid

\* the (Name, LMS ID) pairs of the rows of a list
Ids(list) == [k \in 1..Len(list) |-> << Strip(list[k].Name), list[k].LMS >>]

NotSkipped(row) == ~Skipped(row)

\* C10: every input row that is not skipped has exactly one row in the
\* resolver's output and, once the correction pass is over, exactly one in the
\* corrected output, both in input order; a skipped row has none.
C10_OneRowPerRecord ==
    /\ Len(resolved) = Len(rows)
    /\ \A i \in 1..Len(rows) : resolved[i].emit = ~Skipped(rows[i])
    /\ Ids(matched) = Ids(SelectSeq(rows, NotSkipped))
    /\ Len(corrected) = done
    /\ Ids(corrected) = Ids(SubSeq(matched, 1, done))
    /\ (pc = "done" => Ids(corrected) = Ids(SelectSeq(rows, NotSkipped)))

\* a finished run over a skipped row, then a row whose supplied id is unknown
\* and whose key is in the corrections table
C10_Witness ==
    /\ pc = "done"
    /\ Len(rows) = 2
    /\ Skipped(rows[1])
    /\ ~Skipped(rows[2])
    /\ Len(corrected) = 1
    /\ matched[1].MatchType = "GIVEN_NOT_FOUND"
    /\ corrected[1].MatchType = "CORRECTED"

----------------------------------------------------------------------------
(* Scope, tiers and the override lookup                                     *)

\* the input rows that pass the screens of the loop and reach the resolver
Reaches(i) ==
    /\ ~Skipped(rows[i])
    /\ ~FieldsOf[rows[i]].non_k12
    /\ StateOf(rows[i]) # "INT"

\* the input rows that reach the candidate pool: no supplied id
Unsupplied(i) == Reaches(i) /\ GivenOf(rows[i]) = ""

\* C11: every input row with no supplied id is scored in the bucket of its
\* state when that bucket is non-empty and against all districts otherwise,
\* also when its state is given and no district of the registry has it.
C11_ScopeByBucket ==
    \A i \in 1..Len(rows) :
        Unsupplied(i)
        => resolved[i].locals.search_scope =
               IF Bucket(StateOf(rows[i])) # << >> THEN "state" ELSE "all"

\* the input rows that reach the resolver with an id no district has
SuppliedUnknown(i) ==
    /\ Reaches(i)
    /\ GivenOf(rows[i]) # ""
    /\ FetchOne(GivenOf(rows[i])) = << >>

\* C12: an input row whose supplied id is absent from the registry gets a row
\* with method GIVEN_NOT_FOUND, tier NONE and no chosen district (empty
\* matched id and name), and the loop goes on: every row read has a result.
C12_UnknownIdIsNone ==
    /\ Len(resolved) = Len(rows)
    /\ \A i \in 1..Len(rows) :
           SuppliedUnknown(i)
           => /\ resolved[i].emit
              /\ Out(i).MatchType = "GIVEN_NOT_FOUND"
              /\ Out(i).Confidence = "NONE"
              /\ Out(i).MatchedLEAID = ""
              /\ Out(i).MatchedName = ""

\* the input rows the resolver scored with at least one candidate passing
HasScored(i) == Unsupplied(i) /\ resolved[i].locals.scored # << >>

\* the best score of a scored row
TopScore(i) == resolved[i].locals.scored[1].score

\* the tier of the tier table for a best score of at least 0.60
TierTable(score, scope) ==
    IF ScoreGE(score, Frac(90, 100))
    THEN (IF scope = "state" THEN "HIGH" ELSE "MEDIUM")
    ELSE (IF scope = "state" THEN "MEDIUM" ELSE "LOW")

\* C13: for a best score of at least 0.60 the tier depends on the score and
\* the scope only: HIGH (local) or MEDIUM (global) from 0.90, MEDIUM (local)
\* or LOW (global) from 0.60 to below 0.90, both bounds included in the band
\* above them; the chosen district is the first of the ranking.
C13_TierTable ==
    \A i \in 1..Len(rows) :
        (HasScored(i) /\ ScoreGE(TopScore(i), Frac(60, 100)))
        => /\ resolved[i].emit
           /\ resolved[i].locals.search_scope \in {"state", "all"}
           /\ Out(i).Confidence =
                  TierTable(TopScore(i), resolved[i].locals.search_scope)
           /\ Out(i).MatchedLEAID = resolved[i].locals.scored[1].leaid
           /\ Out(i).MatchedName = resolved[i].locals.scored[1].db_name
           /\ Out(i).MatchType = resolved[i].locals.scored[1].method

\* a best score of exactly s in the given scope got the given tier
TierAt(i, num, den, scope, tier) ==
    /\ HasScored(i)
    /\ TopScore(i).num * den = num * TopScore(i).den
    /\ resolved[i].locals.search_scope = scope
    /\ Out(i).Confidence = tier

\* both bounds are met: exactly 0.60 (global, LOW) and exactly 0.90 (local,
\* HIGH)
C13_Witness ==
    /\ Len(rows) = 2
    /\ TierAt(1, 60, 100, "all", "LOW")
    /\ TierAt(2, 90, 100, "state", "HIGH")

\* the first n entries of the ranking as alternates (all of them when fewer)
FirstAlts(i, n) ==
    LET scored == resolved[i].locals.scored
        m == IF Len(scored) < n THEN Len(scored) ELSE n
    IN [k \in 1..m |-> [leaid |-> scored[k].leaid,
                        db_name |-> scored[k].db_name,
                        score |-> scored[k].score]]

\* C14: when at least one candidate was scored and the best score is below
\* 0.60, the row has tier NONE and no chosen district, and its alternates are
\* the (at most three) best rejected candidates in descending score order.
C14_BelowThresholdIsNone ==
    \A i \in 1..Len(rows) :
        (HasScored(i) /\ ~ScoreGE(TopScore(i), Frac(60, 100)))
        => /\ resolved[i].emit
           /\ Out(i).Confidence = "NONE"
           /\ Out(i).MatchedLEAID = ""
           /\ Out(i).MatchedName = ""
           /\ Out(i).Notes.alts = FirstAlts(i, 3)
           /\ \A k \in 1..(Len(Out(i).Notes.alts) - 1) :
                  ScoreGE(Out(i).Notes.alts[k].score,
                          Out(i).Notes.alts[k + 1].score)

\* the candidates of a row with no supplied id: the bucket of its state when
\* that bucket is non-empty, all districts otherwise
ScopeOf(i) ==
    IF Bucket(StateOf(rows[i])) # << >>
    THEN Bucket(StateOf(rows[i]))
    ELSE GlobalCandidates

\* no candidate of the scope passes a scoring rule
NonePasses(i) ==
    \A k \in 1..Len(ScopeOf(i)) :
        ScoreCandidate(ScopeOf(i)[k], resolved[i].locals.clean_name,
                       resolved[i].locals.norm_input) = << >>

NoMatchRow(out) ==
    /\ out.MatchType = "NO_MATCH"
    /\ out.Confidence = "NONE"
    /\ out.MatchedLEAID = ""
    /\ out.Notes.alts = << >>

\* C15: an input row with no supplied id, no candidate of its scope passing a
\* scoring rule and no entry in the corrections table gets a row NO_MATCH with
\* tier NONE, an empty matched id and no alternates, from the resolver and
\* from the correction pass.
C15_NoMatchRow ==
    \A i \in 1..Len(rows) :
        (Unsupplied(i) /\ NonePasses(i)
            /\ RecordKey(rows[i]) \notin DOMAIN corrections)
        => /\ resolved[i].emit
           /\ NoMatchRow(Out(i))
           /\ (resolved[i].out_index <= Len(corrected)
                  => NoMatchRow(corrected[resolved[i].out_index]))

\* the keys of the add(...) calls
EntryKeys ==
    [k \in 1..Len(CorrectionEntries) |->
        << Strip(Lower(CorrectionEntries[k].name)),
           Strip(Upper(CorrectionEntries[k].state)) >>]

\* the row of the corrected output for the i-th input row
Final(i) == corrected[resolved[i].out_index]

\* the i-th input row has been through the correction pass
Corrected(i) == resolved[i].emit /\ resolved[i].out_index <= Len(corrected)

\* the correction pass wrote the i-th row from the entry e, not from the
\* resolver's row
AppliedTo(i, e) == IsOverride(Final(i), e) /\ ~IsOverride(Out(i), e)

NearMiss(i, k) ==
    /\ RecordKey(rows[i])[1] = EntryKeys[k][1]
    /\ RecordKey(rows[i])[2] # EntryKeys[k][2]

KeyAbsent(i) ==
    \A k \in 1..Len(CorrectionEntries) : RecordKey(rows[i]) # EntryKeys[k]

\* the correction pass left the resolver's result of the i-th row as it was
Unchanged(i) ==
    /\ Final(i).MatchedLEAID = Out(i).MatchedLEAID
    /\ Final(i).MatchedName = Out(i).MatchedName
    /\ Final(i).MatchType = Out(i).MatchType
    /\ Final(i).Confidence = Out(i).Confidence
    /\ Final(i).Notes = Out(i).Notes

\* C17: for every input row whose key is not in the corrections table, the
\* row of the corrected output carries the resolver's matched id, matched
\* name, match type, confidence and notes with their alternates, unchanged.
C17_AbsentKeyUnchanged ==
    \A i \in 1..Len(rows) : (Corrected(i) /\ KeyAbsent(i)) => Unchanged(i)

\* a finished run over a row with no entry for which the resolver chose a
\* district and listed alternates
C17_Witness ==
    /\ pc = "done"
    /\ \E i \in 1..Len(rows) :
           /\ Corrected(i)
           /\ KeyAbsent(i)
           /\ Out(i).MatchedLEAID # ""
           /\ Out(i).Notes.alts # << >>
           /\ Out(i).Notes.text # ""
           /\ Unchanged(i)

----------------------------------------------------------------------------
(* Statistics, ranking and rule order                                       *)

\* the sum of the counters of stats
StatsTotal ==
    stats.corrected + stats.kept + stats.nulled + stats.non_k12
        + stats.ambiguous

\* the rows of the corrected output that are not DUPE
Counted == {k \in 1..Len(corrected) : corrected[k].MatchType # "DUPE"}

\* C18: a row whose final match type is DUPE increments no counter of the
\* statistics: the counters add up to the number of rows written that are not
\* DUPE.
C18_DupeNotCounted == StatsTotal = Cardinality(Counted)

\* the position of a district in the "ORDER BY leaid" result
RegIndex(leaid) == CHOOSE k \in 1..Len(districts) : districts[k].leaid = leaid

\* the ranking of the i-th input row
ScoredOf(i) == resolved[i].locals.scored

SameScore(x, y) == x.num * y.den = y.num * x.den

\* the entries of the ranking of the i-th row that have the best score
Best(i) ==
    {k \in 1..Len(ScoredOf(i)) :
        \A j \in 1..Len(ScoredOf(i)) :
            ScoreGE(ScoredOf(i)[k].score, ScoredOf(i)[j].score)}

\* the district that comes first in the registry among those of Best(i)
EarliestBest(i) ==
    districts[MinOf({RegIndex(ScoredOf(i)[k].leaid) : k \in Best(i)})].leaid

\* C19: the scored candidates are ranked by non-increasing score and, among
\* equal scores, in registry order (ascending leaid); the chosen district is
\* the one that comes first in the registry among those with the best score,
\* and the alternates are the next entries of the ranking, in its order.
C19_RankedByScoreThenRegistry ==
    \A i \in 1..Len(rows) :
        HasScored(i)
        => /\ \A k, l \in 1..Len(ScoredOf(i)) :
                  k < l
                  => /\ ScoreGE(ScoredOf(i)[k].score, ScoredOf(i)[l].score)
                     /\ SameScore(ScoredOf(i)[k].score, ScoredOf(i)[l].score)
                            => RegIndex(ScoredOf(i)[k].leaid)
                                   <= RegIndex(ScoredOf(i)[l].leaid)
           /\ ScoreGE(TopScore(i), Frac(60, 100))
                  => /\ Out(i).MatchedLEAID = EarliestBest(i)
                     /\ Out(i).Notes.alts
                            = SubSeq(FirstAlts(i, 3), 2, Len(FirstAlts(i, 3)))

\* two districts share the best score of a row: the one that comes first in
\* the registry is chosen and the other is the first alternate
C19_Witness ==
    \E i \in 1..Len(rows) :
        /\ HasScored(i)
        /\ Len(ScoredOf(i)) >= 2
        /\ SameScore(ScoredOf(i)[1].score, ScoredOf(i)[2].score)
        /\ RegIndex(ScoredOf(i)[1].leaid) < RegIndex(ScoredOf(i)[2].leaid)
        /\ Out(i).MatchedLEAID = ScoredOf(i)[1].leaid
        /\ Out(i).Notes.alts[1].leaid = ScoredOf(i)[2].leaid

\* the rules in their order, with the score of the first four and the least
\* score an overlap entry has
RuleOrder ==
    << [method |-> "EXACT_NORM", score |-> Frac(100, 100)],
       [method |-> "EXACT_ACCOUNT", score |-> Frac(99, 100)],
       [method |-> "EXACT_NORM_ACCOUNT", score |-> Frac(98, 100)],
       [method |-> "SUBSTRING", score |-> Frac(90, 100)],
       [method |-> "OVERLAP", score |-> Frac(50, 100)] >>

\* the rules whose condition holds for an input name and a district
ApplicableTo(name, d) ==
    LET norm_input == normalize(name)
        norm_db == normalize(d.name)
        norm_acct == IF d.account_name # "" THEN normalize(d.account_name) ELSE ""
    IN {k \in 1..Len(RuleOrder) :
          \/ k = 1 /\ norm_input # "" /\ norm_input = norm_db
          \/ k = 2 /\ d.account_name # ""
                   /\ Strip(Lower(name)) = Strip(Lower(d.account_name))
          \/ k = 3 /\ norm_acct # "" /\ norm_input # "" /\ norm_input = norm_acct
          \/ k = 4 /\ norm_input # "" /\ norm_db # ""
                   /\ (Contains(norm_db, norm_input) \/ Contains(norm_input, norm_db))
          \/ k = 5 /\ \/ ScoreGE(word_overlap_score(norm_input, norm_db), Frac(1, 2))
                      \/ /\ norm_acct # ""
                         /\ ScoreGE(word_overlap_score(norm_input, norm_acct),
                                    Frac(1, 2))}

\* ApplicableTo for the rows of Records and the districts of the pool
Applicable ==
    [r \in Records |->
        [k \in 1..Len(DistrictsPool) |->
            ApplicableTo(CleanName(Strip(r.Name)), DistrictsPool[k])]]

\* the position of a district in the pool
PoolIndex(leaid) ==
    CHOOSE k \in 1..Len(DistrictsPool) : DistrictsPool[k].leaid = leaid

\* the entries of the ranking of the i-th row for a district
EntriesOf(i, leaid) ==
    {n \in 1..Len(ScoredOf(i)) : ScoredOf(i)[n].leaid = leaid}

\* the i-th row was scored against a pool of candidates
WasScored(i) == Unsupplied(i) /\ resolved[i].locals.search_scope # ""

\* the entries of a candidate are those of the first of the rules in rules
FirstRuleOnly(i, leaid, rules) ==
    IF rules = {} THEN EntriesOf(i, leaid) = {}
    ELSE IF MinOf(rules) = 5
    THEN /\ EntriesOf(i, leaid) # {}
         /\ \A n \in EntriesOf(i, leaid) :
                ScoredOf(i)[n].method \in {"WORD_OVERLAP", "ACCT_OVERLAP"}
    ELSE \E n \in 1..Len(ScoredOf(i)) :
            /\ EntriesOf(i, leaid) = {n}
            /\ ScoredOf(i)[n].method = RuleOrder[MinOf(rules)].method
            /\ ScoredOf(i)[n].score = RuleOrder[MinOf(rules)].score

\* C20: for every input row and every candidate of its pool the scorer keeps
\* the result of the first rule that applies, in the order EXACT_NORM (1.00),
\* EXACT_ACCOUNT (0.99), EXACT_NORM_ACCOUNT (0.98), SUBSTRING (0.90), overlap:
\* a candidate for which one of the first four applies has that one entry and
\* no entry of a later rule.
C20_FirstRuleWins ==
    \A i \in 1..Len(rows) :
        WasScored(i)
        => \A k \in 1..Len(ScopeOf(i)) :
               FirstRuleOnly(i, ScopeOf(i)[k].leaid,
                             Applicable[rows[i]][PoolIndex(ScopeOf(i)[k].leaid)])

\* the i-th row has a candidate for which exactly the rules in rules apply
HasCandidate(i, rules) ==
    /\ WasScored(i)
    /\ \E k \in 1..Len(ScopeOf(i)) :
           Applicable[rows[i]][PoolIndex(ScopeOf(i)[k].leaid)] = rules

\* a row with a candidate for which every rule from EXACT_ACCOUNT on applies,
\* then a row with a candidate for which every rule from EXACT_NORM_ACCOUNT on
\* applies
C20_Witness ==
    /\ Len(rows) = 2
    /\ HasCandidate(1, {2, 3, 4, 5})
    /\ HasCandidate(2, {3, 4, 5})

----------------------------------------------------------------------------
(* Overlap, unmatchable names and the scored list                           *)

\* the overlap of an input name with the name and with the account name of a
\* district (0 for a district with no account name)
OverlapsWith(name, d) ==
    [db |-> word_overlap_score(normalize(name), normalize(d.name)),
     acct |-> IF d.account_name # ""
              THEN word_overlap_score(normalize(name), normalize(d.account_name))
              ELSE Frac(0, 1)]

\* OverlapsWith for the rows of Records and the districts of the pool
Overlaps ==
    [r \in Records |->
        [k \in 1..Len(DistrictsPool) |->
            OverlapsWith(CleanName(Strip(r.Name)), DistrictsPool[k])]]

\* the higher of two scores
Higher(x, y) == IF ScoreGE(x, y) THEN x ELSE y

\* C21: a candidate that reaches the overlap rule has at most one entry in the
\* scored list, carrying the higher of its name overlap and its account-name
\* overlap when that is at least 0.5, and none otherwise; no district has two
\* entries in the scored list.
C21_OneEntryPerCandidate ==
    \A i \in 1..Len(rows) :
        WasScored(i)
        => \A k \in 1..Len(ScopeOf(i)) :
               LET leaid == ScopeOf(i)[k].leaid
                   o == Overlaps[rows[i]][PoolIndex(leaid)]
               IN /\ Cardinality(EntriesOf(i, leaid)) <= 1
                  /\ (Applicable[rows[i]][PoolIndex(leaid)] = {5})
                         => \A n \in EntriesOf(i, leaid) :
                                SameScore(ScoredOf(i)[n].score, Higher(o.db, o.acct))

\* the words of the vocabulary that occur in a string
TokensIn(s) ==
    { Vocabulary[k] : k \in {x \in DOMAIN Vocabulary : Contains(s, Vocabulary[x])} }

\* C22: the overlap of input tokens T with candidate tokens C is |T n C| / |T|
\* over distinct whitespace-separated tokens, 0 when T or C is empty, always
\* between 0 and 1, and 1 exactly when every token of a non-empty T is in C,
\* whatever else C holds.
C22_OverlapOverInputTokens ==
    overlap # << >>
    => LET T == TokensIn(overlap_a)
           C == TokensIn(overlap_b)
       IN /\ overlap[1].den > 0
          /\ 0 <= overlap[1].num /\ overlap[1].num <= overlap[1].den
          /\ (T = {} \/ C = {}) => overlap[1].num = 0
          /\ (T # {} /\ C # {})
                 => overlap[1].num * Cardinality(T)
                        = Cardinality(T \cap C) * overlap[1].den
          /\ (overlap[1].num = overlap[1].den) <=> (T # {} /\ T \subseteq C)

\* a call whose input repeats a token and whose candidate holds every input
\* token and one more: the overlap is 1
C22_Witness ==
    /\ overlap # << >>
    /\ overlap_a = "lake alief lake"
    /\ overlap_b = "alief forest lake"
    /\ overlap[1].num = overlap[1].den

\* the rows of Records whose normalized name is empty
EmptyNormalized == {r \in Records : normalize(CleanName(Strip(r.Name))) = ""}

\* the i-th row was scored and its normalized name is empty
ScoredEmpty(i) == WasScored(i) /\ rows[i] \in EmptyNormalized

\* C23 as stated: for an input row whose normalized name is empty no rule
\* fires for any candidate, and the row has tier NONE and no chosen district.
C23_EmptyNameUnmatchable ==
    \A i \in 1..Len(rows) :
        ScoredEmpty(i)
        => /\ ScoredOf(i) = << >>
           /\ resolved[i].emit
           /\ Out(i).Confidence = "NONE"
           /\ Out(i).MatchedLEAID = ""

\* C23 amended: for an input row whose normalized name is empty no rule on
\* normalized names fires (EXACT_NORM, EXACT_NORM_ACCOUNT, SUBSTRING, overlap);
\* only EXACT_ACCOUNT can, for a candidate whose account name is the raw input
\* name, and when there is no such candidate the row is NO_MATCH with tier NONE
\* and no chosen district.
C23_EmptyNameOnlyExactAccount ==
    \A i \in 1..Len(rows) :
        ScoredEmpty(i)
        => /\ \A n \in 1..Len(ScoredOf(i)) :
                  /\ ScoredOf(i)[n].method = "EXACT_ACCOUNT"
                  /\ 2 \in Applicable[rows[i]][PoolIndex(ScoredOf(i)[n].leaid)]
           /\ resolved[i].emit
           /\ (\A k \in 1..Len(ScopeOf(i)) :
                   2 \notin Applicable[rows[i]][PoolIndex(ScopeOf(i)[k].leaid)])
                  => /\ ScoredOf(i) = << >>
                     /\ NoMatchRow(Out(i))

\* a row whose normalized name is empty was scored against a bucket with
\* candidates and none of them got an entry
C23_Witness ==
    \E i \in 1..Len(rows) :
        /\ ScoredEmpty(i)
        /\ resolved[i].locals.search_scope = "state"
        /\ Len(ScopeOf(i)) > 0
        /\ ScoredOf(i) = << >>
        /\ Out(i).MatchType = "NO_MATCH"

----------------------------------------------------------------------------
(* normalize: suffix phrases and district numbers                           *)

\* the stem a name starts with
StemOf(name) == CHOOSE st \in Stems : StartsAt(name, st \o " ", 1)

\* C24: normalize removes a suffix phrase of the vocabulary whole, the longer
\* phrase being tried before any phrase it contains: of a name made of a stem
\* and one phrase of the vocabulary only the stem is left.
C24_SuffixPhraseRemovedWhole ==
    (pc = "normalize" /\ calls = 1) => value = StemOf(arg)

\* the parts a name of NumberNames is made of
PartsOf(name) == CHOOSE x \in DOMAIN NumberNames : NumberNames[x] = name

\* the names that differ from a name only in their number
OtherNumbers(name) ==
    { NumberNames[<< PartsOf(name)[1], n, PartsOf(name)[3] >>] :
          n \in NumberTokens \ {PartsOf(name)[2]} }

\* C25 as stated: normalize removes a district number only at the end of the
\* name: a name that ends with its number is left with what precedes it, and
\* a name whose number is followed by a word keeps it, so that two names that
\* differ only in that number have different normalized forms.
C25_OnlyTrailingNumberRemoved ==
    (pc = "normalize" /\ calls = 1)
    => IF PartsOf(arg)[3] = ""
       THEN value = PartsOf(arg)[1]
       ELSE \A other \in OtherNumbers(arg) : NormalizeOf(script, other) # value

\* the letters of a district number, each run preceded by a space
NumberLetters ==
    [n \in NumberTokens |->
        IF n = "no. 2" THEN " no" ELSE IF n = "re-8" THEN " re" ELSE ""]

\* C25 amended: a district number at the end of the name is removed whole;
\* of a number followed by a word only the digits and punctuation are removed
\* (with everything else that is not a letter) and its letters are kept, so
\* two names that differ only in the digits of such a number have the same
\* normalized form.
C25_NumberDigitsRemovedAnywhere ==
    (pc = "normalize" /\ calls = 1)
    => value = IF PartsOf(arg)[3] = ""
               THEN PartsOf(arg)[1]
               ELSE PartsOf(arg)[1] \o NumberLetters[PartsOf(arg)[2]]
                        \o PartsOf(arg)[3]

\* a call on a name whose number is followed by a word returned that name
\* without the number
C25_Witness ==
    /\ pc = "normalize"
    /\ calls = 1
    /\ arg = "lake forest 168 park"
    /\ value = "lake forest park"


\* C26: all registry reads happen before the first record is processed: every
\* query of the districts table is made while no output row has been emitted
\* yet, so none follows the first output row.
C26_NoRegistryReadAfterFirstRow ==
    \A k \in DOMAIN queries : queries[k].emitted = 0


\* the upper-cased state of the rows of the districts table
UpperStates ==
    [k \in 1..Len(DistrictsPool) |-> Upper(DistrictsPool[k].state_abbrev)]

\* the places by_state holds a district at: << state, position >>
PlacesOf(leaid) ==
    {p \in UNION {{<< st, j >> : j \in 1..Len(by_state[st])} : st \in DOMAIN by_state} :
        by_state[p[1]][p[2]].leaid = leaid}

\* the positions all_districts holds a district at
GlobalPlacesOf(leaid) ==
    {k \in 1..Len(all_districts) : all_districts[k].leaid = leaid}

\* C27: once the index is built, every district with a non-empty state is in
\* exactly one bucket, the bucket of its upper-cased state, and a bucket holds
\* nothing else; every district is in all_districts exactly once; buckets and
\* all_districts keep the order of the registry; and only input rows with no
\* state are scored against all_districts.
C27_IndexInvariant ==
    pc # "index"
    => /\ \A k \in 1..Len(districts) :
             /\ GlobalPlacesOf(districts[k].leaid) = {k}
             /\ PlacesOf(districts[k].leaid) =
                    IF districts[k].state_abbrev = "" THEN {}
                    ELSE {p \in PlacesOf(districts[k].leaid) :
                             p[1] = UpperStates[PoolIndex(districts[k].leaid)]}
             /\ districts[k].state_abbrev # ""
                => Cardinality(PlacesOf(districts[k].leaid)) = 1
       /\ Len(all_districts) = Len(districts)
       /\ \A st \in DOMAIN by_state :
             /\ by_state[st] # << >>
             /\ \A j \in 1..Len(by_state[st]) :
                   \E k \in 1..Len(districts) :
                       districts[k].leaid = by_state[st][j].leaid
             /\ \A j1, j2 \in 1..Len(by_state[st]) :
                   j1 < j2 => RegIndex(by_state[st][j1].leaid)
                                < RegIndex(by_state[st][j2].leaid)
       /\ \A i \in 1..Len(rows) :
             resolved[i].locals.search_scope = "all" => StateOf(rows[i]) = ""

\* C27 witness: the index of the whole pool is built, with two buckets of
\* several districts and a district with no state, and a row with no state
\* has been scored against all districts while a row with a state was scored
\* in its bucket.
C27_Witness ==
    /\ pc = "match"
    /\ districts = DistrictsPool
    /\ Len(by_state["TX"]) = 4
    /\ Len(by_state["SC"]) = 2
    /\ PlacesOf("5900001") = {}
    /\ GlobalPlacesOf("5900001") = {8}
    /\ \E i, j \in 1..Len(rows) :
          /\ StateOf(rows[i]) = ""
          /\ resolved[i].locals.search_scope = "all"
          /\ resolved[i].locals.scored # << >>
          /\ StateOf(rows[j]) = "TX"
          /\ resolved[j].locals.search_scope = "state"


\* the districts the output row of the i-th input row names: the matched one,
\* if any, and the alternates
NamedBy(i) ==
    (IF Out(i).MatchedLEAID = "" THEN {} ELSE {Out(i).MatchedLEAID})
    \cup {Out(i).Notes.alts[k].leaid : k \in DOMAIN Out(i).Notes.alts}

\* the i-th input row is scored in the bucket of its state
LocalScope(i) == Unsupplied(i) /\ Bucket(StateOf(rows[i])) # << >>

\* C28: for an input row with a state that has a bucket and with no supplied
\* id, the matched district and every alternate of its output row are
\* districts of the registry whose upper-cased state is the state of the row.
C28_LocalResultInState ==
    \A i \in 1..Len(rows) :
        LocalScope(i)
        => /\ resolved[i].emit
           /\ \A leaid \in NamedBy(i) :
                 /\ \E k \in 1..Len(districts) : districts[k].leaid = leaid
                 /\ UpperStates[PoolIndex(leaid)] = StateOf(rows[i])

\* C28 witness: a row scored in the bucket of its state got a matched district
\* and an alternate, and a row scored in the bucket of its state names
\* districts while a district of another state passes a scoring rule for its
\* name and is not named.
C28_Witness ==
    /\ \E j \in 1..Len(rows) :
          /\ LocalScope(j)
          /\ Out(j).MatchedLEAID # ""
          /\ Out(j).Notes.alts # << >>
    /\ \E i \in 1..Len(rows) :
          /\ LocalScope(i)
          /\ NamedBy(i) # {}
          /\ \E k \in 1..Len(districts) :
                /\ UpperStates[PoolIndex(districts[k].leaid)] # StateOf(rows[i])
                /\ Applicable[rows[i]][PoolIndex(districts[k].leaid)] # {}
                /\ districts[k].leaid \notin NamedBy(i)


\* C29: in the output row of every input row the alternates do not contain the
\* matched district, and no district appears twice among the alternates.
C29_ChosenAndAlternatesDistinct ==
    \A i \in 1..Len(rows) :
        resolved[i].emit
        => /\ \A k \in DOMAIN Out(i).Notes.alts :
                 Out(i).Notes.alts[k].leaid # Out(i).MatchedLEAID
           /\ \A k1, k2 \in DOMAIN Out(i).Notes.alts :
                 k1 # k2 => Out(i).Notes.alts[k1].leaid # Out(i).Notes.alts[k2].leaid


\* the names of the counters of stats
CounterNames == {"corrected", "kept", "nulled", "non_k12", "ambiguous"}

\* a step that leaves every counter as it is, or adds one to one of them
CountsOne ==
    \E c \in CounterNames : stats' = [stats EXCEPT ![c] = @ + 1]

\* C30: at every point of the run the counters of stats add up to the number
\* of rows written to the corrected output, an input row that was skipped for
\* its empty or sentinel name has no output row, and every step that writes a
\* row adds one to exactly one counter while every other step changes none.
C30_CountersSumToRows ==
    /\ [](/\ StatsTotal = Len(corrected)
          /\ Len(corrected) <= Cardinality({i \in 1..Len(rows) : resolved[i].emit})
          /\ \A i \in 1..Len(rows) : Skipped(rows[i]) => ~resolved[i].emit)
    /\ [][IF Len(corrected') = Len(corrected) + 1
          THEN CountsOne
          ELSE corrected' = corrected /\ stats' = stats]_vars

\* C30 witness: the run is over for two input rows, one skipped for its
\* sentinel name and one whose output row was overridden as DUPE, and the
\* single row written is counted once.
C30_Witness ==
    /\ pc = "done"
    /\ Len(rows) = 2
    /\ \E i, j \in 1..2 :
          /\ Skipped(rows[i])
          /\ NameOf(rows[i]) \in SentinelNames
          /\ Corrected(j)
          /\ Final(j).MatchType = "DUPE"
    /\ Len(corrected) = 1
    /\ StatsTotal = 1

============================================================================
